---- MODULE Spec2Model ----
(***************************************************************************)
(* State machine of the Sudoku game in src/script.js: the global `state`   *)
(* object, the localStorage keys it persists to, the interval timers it    *)
(* starts, and one action per handler.                                     *)
(***************************************************************************)
EXTENDS Integers, Sequences, FiniteSets, TLC

(* ---------------- program constants ---------------- *)
HINT_COST == 50
MAX_MISTAKES == 3
MISTAKE_PENALTY == 50
CORRECT_BONUS == 10
HISTORY_LIMIT == 20
SAVE_PERIOD == 10
TOP_SCORES == 5
N == 9
BOX == 3

(* ---------------- bounds of the exploration ---------------- *)
\* handler calls explored besides the scripted steps of a session (see Next)
MaxInputs == 5

\* the 81 cells in row-major order: cell i is state.grid[Row(i)][Col(i)]
Cells == 0 .. (N * N - 1)
Row(cell) == cell \div N
Col(cell) == cell % N
\* the index of the cell a {r, c} object names
At(rc) == rc.r * N + rc.c
RC(cell) == [r |-> Row(cell), c |-> Col(cell)]
\* null, as the value of state.selectedCell and of a missing localStorage item
NoCell == [r |-> -1, c |-> -1]
Null == <<>>

Max(a, b) == IF a >= b THEN a ELSE b

(* DIFFICULTY table and the lookup of generate() *)
DIFFICULTY == [easy |-> 30, medium |-> 40, hard |-> 50, expert |-> 55]
Removed(lvl) == IF lvl \in DOMAIN DIFFICULTY THEN DIFFICULTY[lvl] ELSE 30

(* One outcome of SudokuGenerator.generate: a full valid grid, and the same *)
(* grid with exactly Removed(lvl) cells blanked.                           *)
SolvedGrid == [cell \in Cells |-> ((Row(cell) * BOX + (Row(cell) \div BOX) + Col(cell)) % N) + 1]
Generate(lvl) ==
    [solution |-> SolvedGrid,
     initial  |-> [cell \in Cells |-> IF cell < Removed(lvl) THEN 0 ELSE SolvedGrid[cell]]]

(* ---------------- inputs explored ---------------- *)
Levels == {"easy"}
\* the digits pressed on the number pad: the solution digits of the two EndCells,
\* each of them the wrong digit for the other cell
PadDigits == {3, 4}
\* the cells the player keeps for the end of the session: (3,1) and (3,2),
\* the last two cells blanked by Generate("easy"), in one row and one box
EndCells == {28, 29}

VARIABLES
    \* the fields of the global `state` object
    grid, solution, initial, notes, selectedCell, score, timer, timerInterval,
    mistakes, level, isNoteMode, history, isPaused, isGameOver,
    \* the localStorage items 'sudoku_save' and 'sudoku_highscores'
    sudoku_save, sudoku_highscores,
    \* the ids of the live setInterval timers, and the id the next one gets
    intervals, nextInterval,
    \* the active screen, and the title gameOver/pauseGame last gave the modal
    screen, modalTitle,
    \* the number of explored handler calls so far
    inputs,
    \* a SudokuGenerator at work: this.grid, the difficulty it was asked for,
    \* the loop variable of generate's fillBox loop, the stack of fillGrid calls
    \* (the cell each one fills and its position in nums), the copy `solution`,
    \* the removals left, and the place generate has reached
    this_grid, difficulty, box_i, frames, gen_solution, count, pc,
    \* the outcome of Math.random for one generate call, and the last isValid call
    seed, isValidCall

stateVars == <<grid, solution, initial, notes, selectedCell, score, timer, timerInterval,
               mistakes, level, isNoteMode, history, isPaused, isGameOver>>
storeVars == <<sudoku_save, sudoku_highscores>>
envVars == <<intervals, nextInterval, screen, modalTitle>>
progVars == <<stateVars, storeVars, envVars>>
genVars == <<this_grid, difficulty, box_i, frames, gen_solution, count, pc, seed, isValidCall>>
vars == <<progVars, inputs, genVars>>

EmptyGrid == [cell \in Cells |-> 0]
EmptyNotes == [cell \in Cells |-> <<>>]

(* JSON.stringify(state): every field is a number, boolean, string, null   *)
(* or an array/object of those, so JSON.parse gives back equal values.     *)
Snapshot(g, ini, nts, sel, sc, tm, ti, mk, nm, hist, ps, over) ==
    [grid |-> g, solution |-> solution, initial |-> ini, notes |-> nts,
     selectedCell |-> sel, score |-> sc, timer |-> tm, timerInterval |-> ti,
     mistakes |-> mk, level |-> level, isNoteMode |-> nm, history |-> hist,
     isPaused |-> ps, isGameOver |-> over]

\* no SudokuGenerator has been constructed
NoGenerator ==
    /\ this_grid = Null
    /\ difficulty = "easy"
    /\ box_i = 0
    /\ frames = <<>>
    /\ gen_solution = Null
    /\ count = 0
    /\ pc = "idle"
    /\ seed = 0
    /\ isValidCall = Null

\* the `state` literal, empty storage, the home screen
PageLoad ==
    /\ grid = EmptyGrid
    /\ solution = EmptyGrid
    /\ initial = EmptyGrid
    /\ notes = EmptyNotes
    /\ selectedCell = NoCell
    /\ score = 0
    /\ timer = 0
    /\ timerInterval = 0
    /\ mistakes = 0
    /\ level = "easy"
    /\ isNoteMode = FALSE
    /\ history = <<>>
    /\ isPaused = FALSE
    /\ isGameOver = FALSE
    /\ sudoku_save = Null
    /\ sudoku_highscores = <<>>
    /\ intervals = {}
    /\ nextInterval = 1
    /\ screen = "home-screen"
    /\ modalTitle = ""
    /\ inputs = 0

Init == PageLoad /\ NoGenerator

\* variant of saveGame: the state stored also when the session is over
saveGame_Unguarded(over, stored, snapshot) == <<snapshot>>

\* saveGame: the item 'sudoku_save' after the call, given the item before
saveGame(over, stored, snapshot) == IF ~over THEN <<snapshot>> ELSE stored

\* variant of stopTimer: the interval is left running
stopTimer_Never(live, ti) == live

(* stopTimer: clearInterval(state.timerInterval) when it is set *)
stopTimer(live, ti) == IF ti # 0 THEN live \ {ti} ELSE live

StartGame(lvl) ==
    /\ screen = "home-screen"
    /\ level' = lvl
    /\ score' = 0
    /\ mistakes' = 0
    /\ timer' = 0
    /\ isGameOver' = FALSE
    /\ isPaused' = FALSE
    /\ history' = <<>>
    /\ notes' = EmptyNotes
    /\ initial' = Generate(lvl).initial
    /\ grid' = Generate(lvl).initial
    /\ solution' = Generate(lvl).solution
    /\ sudoku_save' = Null
    /\ screen' = "game-screen"
    /\ intervals' = stopTimer(intervals, timerInterval) \cup {nextInterval}
    /\ timerInterval' = nextInterval
    /\ nextInterval' = nextInterval + 1
    /\ UNCHANGED <<selectedCell, isNoteMode, sudoku_highscores, modalTitle>>

(* ---------------- pure helpers of the handlers ---------------- *)
RECURSIVE indexOf(_, _, _)
\* Array.prototype.indexOf as a 1-based position from position i on, 0 when absent
indexOf(list, num, i) ==
    IF i > Len(list) THEN 0
    ELSE IF list[i] = num THEN i ELSE indexOf(list, num, i + 1)

\* Array.prototype.splice(idx, 1)
splice(list, idx) == SubSeq(list, 1, idx - 1) \o SubSeq(list, idx + 1, Len(list))

toggleNoteValue(list, num) ==
    LET idx == indexOf(list, num, 1)
    IN IF idx > 0 THEN splice(list, idx) ELSE Append(list, num)

removeNote(list, num) ==
    LET idx == indexOf(list, num, 1)
    IN IF idx > 0 THEN splice(list, idx) ELSE list

SameBox(a, b) == Row(a) \div BOX = Row(b) \div BOX /\ Col(a) \div BOX = Col(b) \div BOX

\* variant of clearNotesForMove: the notes of the filled cell cleared, no cascade
clearNotesForMove_CellOnly(nts, cell, num) == [nts EXCEPT ![cell] = <<>>]

\* the cell's own notes cleared, then removeNote once per loop (row, column,
\* box) that passes over a cell
clearNotesForMove(nts, cell, num) ==
    [x \in Cells |->
        LET own == IF x = cell THEN <<>> ELSE nts[x]
            row == IF Row(x) = Row(cell) THEN removeNote(own, num) ELSE own
            col == IF Col(x) = Col(cell) THEN removeNote(row, num) ELSE row
        IN IF SameBox(x, cell) THEN removeNote(col, num) ELSE col]

\* variant of addToHistory: the entry put in front (unshift) instead of pushed
addToHistory_Front(hist, action) ==
    <<action>> \o (IF Len(hist) > HISTORY_LIMIT THEN Tail(hist) ELSE hist)

addToHistory(hist, action) ==
    Append(IF Len(hist) > HISTORY_LIMIT THEN Tail(hist) ELSE hist, action)

\* the grid undo() leaves: the popped entry's prevVal written back
undo(g, hist) ==
    LET action == hist[Len(hist)]
    IN IF action.type = "input" THEN [g EXCEPT ![At(action)] = action.prevVal] ELSE g

\* variants of handleMistake: the penalty also charged on the losing mistake,
\* and the penalty without its floor
handleMistakeScore_Always(sc, mk) == Max(0, sc - MISTAKE_PENALTY)
handleMistakeScore_NoFloor(sc, mk) ==
    IF mk >= MAX_MISTAKES THEN sc ELSE sc - MISTAKE_PENALTY

\* score left by handleMistake once the mistake count is mk
handleMistakeScore(sc, mk) ==
    IF mk >= MAX_MISTAKES THEN sc ELSE Max(0, sc - MISTAKE_PENALTY)

\* variant of handleMistake: the loss declared one mistake late
handleMistakeLoss_Late(mk) == mk > MAX_MISTAKES

\* handleMistake calls gameOver(false)
handleMistakeLoss(mk) == mk >= MAX_MISTAKES

\* the two scans of checkCompletion
isFull(g) == \A cell \in Cells : g[cell] # 0
isCorrect(g, sol) == \A cell \in Cells : g[cell] = sol[cell]
checkCompletionWin(g, sol) == isFull(g) /\ isCorrect(g, sol)

\* saveHighScore: push, stable sort by descending score, keep the top five
saveHighScore(scores, sc, lvl) ==
    LET entry == [score |-> sc, level |-> lvl]
        pre == SelectSeq(scores, LAMBDA e : e.score >= sc)
        post == SelectSeq(scores, LAMBDA e : e.score < sc)
        all == pre \o <<entry>> \o post
    IN SubSeq(all, 1, IF Len(all) < TOP_SCORES THEN Len(all) ELSE TOP_SCORES)

\* variant of the fixed-cell check: no cell counts as fixed
fixedCell_Never(ini, rc) == FALSE

\* `state.initial[r][c] !== 0` of inputNumber and erase: the cell cannot be edited
fixedCell(ini, rc) == ini[At(rc)] # 0

(* ---------------- handlers ---------------- *)
(* showScreen keeps one screen active: the controls of the game screen    *)
(* (board, number pad, undo, erase, notes, hint, pause, home) act while    *)
(* screen is "game-screen", the level and resume buttons while it is       *)
(* "home-screen". A handler that returns early leaves every variable as is.*)
SelectCell(cell) ==
    /\ screen = "game-screen"
    /\ IF isGameOver THEN UNCHANGED selectedCell ELSE selectedCell' = RC(cell)
    /\ UNCHANGED <<grid, solution, initial, notes, score, timer, timerInterval, mistakes,
                   level, isNoteMode, history, isPaused, isGameOver, storeVars, envVars>>

\* the body of inputNumber(num); erase() calls it with 0
inputNumber(num) ==
    IF isGameOver \/ selectedCell = NoCell THEN UNCHANGED progVars
    ELSE IF fixedCell(initial, selectedCell) THEN UNCHANGED progVars
    ELSE IF isNoteMode THEN
        /\ notes' = [notes EXCEPT ![At(selectedCell)] = toggleNoteValue(@, num)]
        /\ UNCHANGED <<grid, solution, initial, selectedCell, score, timer, timerInterval,
                       mistakes, level, isNoteMode, history, isPaused, isGameOver,
                       storeVars, envVars>>
    ELSE IF grid[At(selectedCell)] = num THEN UNCHANGED progVars
    ELSE
        LET cell == At(selectedCell)
            prevVal == grid[cell]
            hist == addToHistory(history,
                        [type |-> "input", r |-> Row(cell), c |-> Col(cell),
                         val |-> num, prevVal |-> prevVal])
            g == [grid EXCEPT ![cell] = num]
            wrong == num # 0 /\ num # solution[cell]
            right == num # 0 /\ num = solution[cell]
            mk == IF wrong THEN mistakes + 1 ELSE mistakes
            lost == wrong /\ handleMistakeLoss(mk)
            won == right /\ checkCompletionWin(g, solution)
            sc == IF wrong THEN handleMistakeScore(score, mk)
                  ELSE IF right THEN score + CORRECT_BONUS
                  ELSE score
            nts == IF right THEN clearNotesForMove(notes, cell, num) ELSE notes
            over == lost \/ won
        IN
        /\ history' = hist
        /\ grid' = g
        /\ mistakes' = mk
        /\ score' = sc
        /\ notes' = nts
        /\ isGameOver' = over
        /\ intervals' = IF over THEN stopTimer(intervals, timerInterval) ELSE intervals
        /\ modalTitle' = IF won THEN "Victory!" ELSE IF lost THEN "Game Over" ELSE modalTitle
        /\ sudoku_highscores' = IF won THEN saveHighScore(sudoku_highscores, score, level)
                                ELSE sudoku_highscores
        /\ sudoku_save' = saveGame(over, IF over THEN Null ELSE sudoku_save,
                                   Snapshot(g, initial, nts, selectedCell, sc, timer,
                                            timerInterval, mk, isNoteMode, hist, isPaused, over))
        /\ UNCHANGED <<solution, initial, selectedCell, timer, timerInterval, level,
                       isNoteMode, isPaused, nextInterval, screen>>

InputNumber(num) ==
    /\ screen = "game-screen"
    /\ inputNumber(num)

Erase ==
    /\ screen = "game-screen"
    /\ IF isGameOver \/ selectedCell = NoCell THEN UNCHANGED progVars
       ELSE IF fixedCell(initial, selectedCell) THEN UNCHANGED progVars
       ELSE inputNumber(0)

Undo ==
    /\ screen = "game-screen"
    /\ IF Len(history) = 0 \/ isGameOver THEN UNCHANGED progVars
       ELSE LET action == history[Len(history)]
            IN /\ history' = SubSeq(history, 1, Len(history) - 1)
               /\ grid' = undo(grid, history)
               /\ selectedCell' = [r |-> action.r, c |-> action.c]
               /\ UNCHANGED <<solution, initial, notes, score, timer, timerInterval, mistakes,
                              level, isNoteMode, isPaused, isGameOver, storeVars, envVars>>

ToggleNotes ==
    /\ screen = "game-screen"
    /\ isNoteMode' = ~isNoteMode
    /\ UNCHANGED <<grid, solution, initial, notes, selectedCell, score, timer, timerInterval,
                   mistakes, level, history, isPaused, isGameOver, storeVars, envVars>>

\* variant of the checks of useHint: a filled cell is not turned away
useHintRejected_FilledCell(over, sc, sel, g) ==
    over \/ sc < HINT_COST \/ sel = NoCell

\* the four checks of useHint, in their order: each one returns
useHintRejected(over, sc, sel, g) ==
    over \/ sc < HINT_COST \/ sel = NoCell \/ g[At(sel)] # 0

UseHint ==
    /\ screen = "game-screen"
    /\ IF useHintRejected(isGameOver, score, selectedCell, grid) THEN UNCHANGED progVars
       ELSE
        LET cell == At(selectedCell)
            paid == score - HINT_COST
            g == [grid EXCEPT ![cell] = solution[cell]]
            won == checkCompletionWin(g, solution)
        IN
        /\ grid' = g
        /\ initial' = [initial EXCEPT ![cell] = solution[cell]]
        /\ score' = paid + CORRECT_BONUS
        /\ isGameOver' = won
        /\ intervals' = IF won THEN stopTimer(intervals, timerInterval) ELSE intervals
        /\ sudoku_save' = IF won THEN Null ELSE sudoku_save
        /\ modalTitle' = IF won THEN "Victory!" ELSE modalTitle
        /\ sudoku_highscores' = IF won THEN saveHighScore(sudoku_highscores, paid, level)
                                ELSE sudoku_highscores
        /\ UNCHANGED <<solution, notes, selectedCell, timer, timerInterval, mistakes, level,
                       isNoteMode, history, isPaused, nextInterval, screen>>

PauseGame ==
    /\ screen = "game-screen"
    /\ IF isGameOver THEN UNCHANGED progVars
       ELSE /\ isPaused' = TRUE
            /\ modalTitle' = "Paused"
            /\ UNCHANGED <<grid, solution, initial, notes, selectedCell, score, timer,
                           timerInterval, mistakes, level, isNoteMode, history, isGameOver,
                           storeVars, intervals, nextInterval, screen>>

ResumeFromPause ==
    /\ screen = "game-screen"
    /\ isPaused' = FALSE
    /\ UNCHANGED <<grid, solution, initial, notes, selectedCell, score, timer, timerInterval,
                   mistakes, level, isNoteMode, history, isGameOver, storeVars, envVars>>

ShowHome ==
    /\ screen = "game-screen"
    /\ intervals' = stopTimer(intervals, timerInterval)
    /\ screen' = "home-screen"
    /\ UNCHANGED <<stateVars, storeVars, nextInterval, modalTitle>>

ResumeGame ==
    /\ screen = "home-screen"
    /\ sudoku_save # Null
    /\ LET saved == sudoku_save[1]
       IN /\ grid' = saved.grid
          /\ solution' = saved.solution
          /\ initial' = saved.initial
          /\ notes' = saved.notes
          /\ selectedCell' = saved.selectedCell
          /\ score' = saved.score
          /\ timer' = saved.timer
          /\ mistakes' = saved.mistakes
          /\ level' = saved.level
          /\ isNoteMode' = saved.isNoteMode
          /\ history' = saved.history
          /\ isPaused' = saved.isPaused
          /\ isGameOver' = saved.isGameOver
          /\ intervals' = stopTimer(intervals, saved.timerInterval) \cup {nextInterval}
    /\ timerInterval' = nextInterval
    /\ nextInterval' = nextInterval + 1
    /\ screen' = "game-screen"
    /\ UNCHANGED <<storeVars, modalTitle>>

\* variant of the callback's condition: a paused session is timed on
tickActive_Paused(ps, over) == ~over

\* the condition of the setInterval callback
tickActive(ps, over) == ~ps /\ ~over

\* the setInterval callback of startTimer, for a live interval
Tick(id) ==
    /\ id \in intervals
    /\ IF tickActive(isPaused, isGameOver)
       THEN /\ timer' = timer + 1
            /\ sudoku_save' =
                 IF (timer + 1) % SAVE_PERIOD = 0
                 THEN saveGame(isGameOver, sudoku_save,
                               Snapshot(grid, initial, notes, selectedCell, score, timer + 1,
                                        timerInterval, mistakes, isNoteMode, history, isPaused,
                                        isGameOver))
                 ELSE sudoku_save
            /\ UNCHANGED <<grid, solution, initial, notes, selectedCell, score, timerInterval,
                           mistakes, level, isNoteMode, history, isPaused, isGameOver,
                           sudoku_highscores, envVars>>
       ELSE UNCHANGED progVars

(* ---------------- the inputs explored ---------------- *)
\* no session has been started or resumed since the page was loaded
PageLoaded == timerInterval = 0
\* the grid with the given cells set to their solution digit
RECURSIVE Solve(_, _)
Solve(g, cells) ==
    IF cells = {} THEN g
    ELSE LET cell == CHOOSE x \in cells : TRUE
         IN Solve([g EXCEPT ![cell] = solution[cell]], cells \ {cell})
\* some cell outside EndCells does not hold its solution digit yet
Opening == ~PageLoaded /\ screen = "game-screen" /\ Solve(grid, EndCells) # solution
Todo(cell) == cell \notin EndCells /\ grid[cell] # solution[cell]
Focus == CHOOSE cell \in Cells : Todo(cell) /\ \A other \in 0 .. (cell - 1) : ~Todo(other)
OnFocus == selectedCell = RC(Focus)
OnEndCell == selectedCell \in {RC(cell) : cell \in EndCells}
\* the session clock is one tick short of its first periodic save
Waited == timer >= SAVE_PERIOD - 1
\* The script of a session: the player starts a game, lets the clock run up
\* to the tick before the first periodic save, completes every cell outside
\* EndCells in row-major order and moves on to one of EndCells.
\* A scripted step costs nothing, any other handler call costs one input.
Scripted(A) == A /\ UNCHANGED <<inputs, genVars>>
Free(A) == inputs < MaxInputs /\ A /\ inputs' = inputs + 1 /\ UNCHANGED genVars
Explored(A) == inputs < MaxInputs /\ ~PageLoaded /\ ~Opening /\ Free(A)

Next ==
    \/ \E lvl \in Levels : PageLoaded /\ Scripted(StartGame(lvl))
    \/ \E lvl \in Levels : Explored(StartGame(lvl))
    \/ \E id \in intervals : ~Waited /\ Opening /\ Scripted(Tick(id))
    \/ Waited /\ Opening /\ Scripted(SelectCell(Focus))
    \/ \E cell \in EndCells :
          ~PageLoaded /\ ~OnEndCell /\ ~Opening /\ Scripted(SelectCell(cell))
    \/ \E cell \in EndCells : OnEndCell /\ Explored(SelectCell(cell))
    \/ Waited /\ ~isNoteMode /\ Opening /\ OnFocus /\ Scripted(InputNumber(solution[Focus]))
    \/ \E num \in PadDigits :
          /\ inputs < MaxInputs /\ score = 0 /\ Waited /\ ~isNoteMode /\ Opening /\ OnFocus
          /\ Free(InputNumber(num))
    \/ \E num \in PadDigits : Explored(InputNumber(num))
    \/ Explored(Erase)
    \/ Explored(Undo)
    \/ Explored(ToggleNotes)
    \/ Explored(UseHint)
    \/ Explored(PauseGame)
    \/ Explored(ResumeFromPause)
    \/ Explored(ShowHome)
    \/ Explored(ResumeGame)
    \/ \E id \in intervals : Explored(Tick(id))

Spec == Init /\ [][Next]_vars

(* Sessions that explore the notes: after the same script the player selects *)
(* cells, toggles the note mode and presses digits.                         *)
\* handler calls explored in a session on notes
MaxNoteInputs == 7
\* the cells selected: EndCells, and two cells the script filled, (0,1) in the
\* column of (3,1) and (0,0) in no row, column or box of an EndCell
NoteCells == EndCells \cup {0, 1}
OnNoteCell == selectedCell \in {RC(cell) : cell \in NoteCells}
ExploredNotes(A) ==
    /\ inputs < MaxNoteInputs /\ ~PageLoaded /\ ~Opening /\ A /\ inputs' = inputs + 1
    /\ UNCHANGED genVars

NextNotes ==
    \/ \E lvl \in Levels : PageLoaded /\ Scripted(StartGame(lvl))
    \/ \E id \in intervals : ~Waited /\ Opening /\ Scripted(Tick(id))
    \/ Waited /\ Opening /\ Scripted(SelectCell(Focus))
    \/ Waited /\ ~isNoteMode /\ Opening /\ OnFocus /\ Scripted(InputNumber(solution[Focus]))
    \/ \E cell \in EndCells :
          ~PageLoaded /\ ~OnNoteCell /\ ~Opening /\ Scripted(SelectCell(cell))
    \/ \E cell \in NoteCells : ExploredNotes(SelectCell(cell))
    \/ \E num \in PadDigits : ExploredNotes(InputNumber(num))
    \/ ExploredNotes(ToggleNotes)

SpecNotes == Init /\ [][NextNotes]_vars

(* Sessions that explore the hint: the player fills the grid cell by cell *)
(* in row-major order and asks for a hint at any point of it.              *)
\* calls of useHint explored in a session
MaxHints == 3
\* the first cell that does not hold its solution digit
Unsolved == grid # solution
Next1 == CHOOSE cell \in Cells :
            grid[cell] # solution[cell] /\ \A x \in 0 .. (cell - 1) : grid[x] = solution[x]
ExploredHint(A) ==
    /\ inputs < MaxHints /\ ~PageLoaded /\ A /\ inputs' = inputs + 1
    /\ UNCHANGED genVars

NextHint ==
    \/ \E lvl \in Levels : PageLoaded /\ Scripted(StartGame(lvl))
    \/ ~PageLoaded /\ Unsolved /\ selectedCell # RC(Next1) /\ Scripted(SelectCell(Next1))
    \/ ~PageLoaded /\ Unsolved /\ selectedCell = RC(Next1)
          /\ Scripted(InputNumber(solution[Next1]))
    \/ ExploredHint(UseHint)

SpecHint == Init /\ [][NextHint]_vars

(* ---------------- SudokuGenerator ---------------- *)
Digits == 1 .. N

\* variants of isValid: the column not looked at, the box not looked at
isValid_NoColumn(g, row, col, num) ==
    /\ \A x \in 0 .. (N - 1) : g[row * N + x] # num
    /\ \A i, j \in 0 .. (BOX - 1) :
          g[((row \div BOX) * BOX + i) * N + ((col \div BOX) * BOX + j)] # num
isValid_NoBox(g, row, col, num) ==
    \A x \in 0 .. (N - 1) : g[row * N + x] # num /\ g[x * N + col] # num

\* isValid: num is in no cell of the row, of the column, of the box
isValid(g, row, col, num) ==
    /\ \A x \in 0 .. (N - 1) : g[row * N + x] # num /\ g[x * N + col] # num
    /\ \A i, j \in 0 .. (BOX - 1) :
          g[((row \div BOX) * BOX + i) * N + ((col \div BOX) * BOX + j)] # num

\* isSafeBox, for the k-th digit of a box fill: it is not in the box yet
isSafeBox(fill, k) == \A earlier \in 1 .. (k - 1) : fill[earlier] # fill[k]

\* the grid fillBox(row, col) leaves when its draws end on the digits of fill
fillBox(g, row, col, fill) ==
    [cell \in Cells |->
        IF Row(cell) \in row .. (row + BOX - 1) /\ Col(cell) \in col .. (col + BOX - 1)
        THEN fill[(Row(cell) - row) * BOX + (Col(cell) - col) + 1]
        ELSE g[cell]]

\* the scan of fillGrid: the first empty cell in row-major order
hasEmpty(g) == ~(\A cell \in Cells : g[cell] # 0)
firstEmpty(g) == CHOOSE cell \in Cells : g[cell] = 0 /\ \A x \in 0 .. (cell - 1) : g[x] # 0

\* variant of the removal loop body: the count goes down on every draw
removeNumber_Always(g, cnt, cell) ==
    [grid |-> [g EXCEPT ![cell] = 0], count |-> cnt - 1]

\* the body of the removal loop of generate for the cell drawn
removeNumber(g, cnt, cell) ==
    IF g[cell] # 0 THEN [grid |-> [g EXCEPT ![cell] = 0], count |-> cnt - 1]
    ELSE [grid |-> g, count |-> cnt]

(* The outcomes of Math.random that are explored. A shuffle or a box fill  *)
(* is one of the permutations Shuffled(k) of 1..9: digit k + 1 first, then  *)
(* on in steps of Strides[k].                                               *)
\* the box fills explored for each diagonal box
MaxBoxFills == 2
\* the seeds explored for the shuffles of one generate call
MaxSeeds == 2
Strides == <<1, 2, 4, 5, 7, 8>>
Shuffled(k) == [i \in Digits |-> (((i - 1) * Strides[(k % Len(Strides)) + 1] + k) % N) + 1]
\* nums, as the fillGrid call for a cell shuffles them under a seed
nums(s, cell) == Shuffled(s + cell)
\* the cells drawn by a round of the removal loop with cnt removals left: the
\* first cell holding a digit from a position the seed and cnt give, in
\* row-major order and around, and the first cell already blanked
Ahead(cell, from) == (cell - from) % (N * N)
FirstFilled(g, from) ==
    {cell \in Cells : g[cell] # 0 /\ \A x \in Cells : g[x] # 0 => Ahead(x, from) >= Ahead(cell, from)}
FirstBlank(g) == {cell \in Cells : g[cell] = 0 /\ \A x \in 0 .. (cell - 1) : g[x] # 0}
RandomCells(g, s, cnt) == FirstFilled(g, (s + cnt * 7) % (N * N)) \cup FirstBlank(g)
Tiers == DOMAIN DIFFICULTY

UNCHANGED_GAME == UNCHANGED <<progVars, inputs>>

\* new SudokuGenerator().generate(lvl), up to the reset of this.grid
GenerateCall(lvl, s) ==
    /\ pc = "idle"
    /\ this_grid' = EmptyGrid
    /\ difficulty' = lvl
    /\ seed' = s
    /\ box_i' = 0
    /\ pc' = "fillBox"
    /\ UNCHANGED <<frames, gen_solution, count, isValidCall>>

\* one round of the loop `for (i = 0; i < 9; i = i + 3) this.fillBox(i, i)`
FillBox(fill) ==
    /\ pc = "fillBox"
    /\ \A k \in Digits : isSafeBox(fill, k)
    /\ this_grid' = fillBox(this_grid, box_i, box_i, fill)
    /\ box_i' = box_i + BOX
    /\ pc' = IF box_i + BOX < N THEN "fillBox" ELSE "fillGrid"
    /\ UNCHANGED <<difficulty, frames, gen_solution, count, seed, isValidCall>>

\* a call of fillGrid: the scan for an empty cell
FillGridCall ==
    /\ pc = "fillGrid"
    /\ IF hasEmpty(this_grid)
       THEN /\ frames' = Append(frames, [cell |-> firstEmpty(this_grid), i |-> 1])
            /\ pc' = "forNum"
       ELSE /\ pc' = "returnTrue"
            /\ UNCHANGED frames
    /\ UNCHANGED <<this_grid, difficulty, box_i, gen_solution, count, seed, isValidCall>>

\* one round of `for (let num of nums)` in the innermost fillGrid call
ForNum ==
    /\ pc = "forNum"
    /\ LET top == frames[Len(frames)]
           num == nums(seed, top.cell)[top.i]
           ok == isValid(this_grid, Row(top.cell), Col(top.cell), num)
       IN IF top.i > N
          THEN /\ frames' = SubSeq(frames, 1, Len(frames) - 1)
               /\ pc' = "returnFalse"
               /\ UNCHANGED <<this_grid, isValidCall>>
          ELSE /\ isValidCall' = <<[row |-> Row(top.cell), col |-> Col(top.cell),
                                    num |-> num, result |-> ok]>>
               /\ IF ok
                  THEN /\ this_grid' = [this_grid EXCEPT ![top.cell] = num]
                       /\ pc' = "fillGrid"
                       /\ UNCHANGED frames
                  ELSE /\ frames' = [frames EXCEPT ![Len(frames)].i = @ + 1]
                       /\ UNCHANGED <<this_grid, pc>>
    /\ UNCHANGED <<difficulty, box_i, gen_solution, count, seed>>

\* the recursive call returned false: `grid[row][col] = 0`, next num
ReturnFalse ==
    /\ pc = "returnFalse"
    /\ frames # <<>>
    /\ this_grid' = [this_grid EXCEPT ![frames[Len(frames)].cell] = 0]
    /\ frames' = [frames EXCEPT ![Len(frames)].i = @ + 1]
    /\ pc' = "forNum"
    /\ UNCHANGED <<difficulty, box_i, gen_solution, count, seed, isValidCall>>

\* the recursive call returned true: `return true`
ReturnTrue ==
    /\ pc = "returnTrue"
    /\ frames # <<>>
    /\ frames' = SubSeq(frames, 1, Len(frames) - 1)
    /\ UNCHANGED <<this_grid, difficulty, box_i, gen_solution, count, pc, seed, isValidCall>>

\* this.fillGrid(this.grid) is back, whatever it returned: the copy `solution`
\* is taken and the removal count looked up
CopySolution ==
    /\ pc \in {"returnTrue", "returnFalse"}
    /\ frames = <<>>
    /\ gen_solution' = this_grid
    /\ count' = Removed(difficulty)
    /\ pc' = "remove"
    /\ UNCHANGED <<this_grid, difficulty, box_i, frames, seed, isValidCall>>

\* one round of `while (count > 0)` for the cell drawn
RemoveNumber(cell) ==
    /\ pc = "remove"
    /\ count > 0
    /\ this_grid' = removeNumber(this_grid, count, cell).grid
    /\ count' = removeNumber(this_grid, count, cell).count
    /\ UNCHANGED <<difficulty, box_i, frames, gen_solution, pc, seed, isValidCall>>

\* `return { initial, solution }`: initial is this.grid, solution the copy
GenerateReturn ==
    /\ pc = "remove"
    /\ count = 0
    /\ pc' = "returned"
    /\ UNCHANGED <<this_grid, difficulty, box_i, frames, gen_solution, count, seed, isValidCall>>

NextGen ==
    \/ \E lvl \in Tiers, s \in 0 .. (MaxSeeds - 1) : GenerateCall(lvl, s) /\ UNCHANGED_GAME
    \/ \E k \in 0 .. (MaxBoxFills - 1) : FillBox(Shuffled(k)) /\ UNCHANGED_GAME
    \/ FillGridCall /\ UNCHANGED_GAME
    \/ ForNum /\ UNCHANGED_GAME
    \/ ReturnFalse /\ UNCHANGED_GAME
    \/ ReturnTrue /\ UNCHANGED_GAME
    \/ CopySolution /\ UNCHANGED_GAME
    \/ pc = "remove" /\ \E cell \in RandomCells(this_grid, seed, count) : RemoveNumber(cell) /\ UNCHANGED_GAME
    \/ GenerateReturn /\ UNCHANGED_GAME

SpecGen == Init /\ [][NextGen]_vars

(* isValid on its own: the grids it is called on are the solved grid cut  *)
(* off before or after a cell, and every cell and digit is asked for.       *)
CutGrids ==
    {[cell \in Cells |-> IF cell < cut THEN SolvedGrid[cell] ELSE 0] : cut \in 0 .. (N * N)}
        \cup {[cell \in Cells |-> IF cell >= cut THEN SolvedGrid[cell] ELSE 0] : cut \in 0 .. (N * N)}

InitIsValid ==
    /\ PageLoad
    /\ this_grid \in CutGrids
    /\ difficulty = "easy"
    /\ box_i = 0
    /\ frames = <<>>
    /\ gen_solution = Null
    /\ count = 0
    /\ pc = "idle"
    /\ seed = 0
    /\ isValidCall = Null

\* a call this.isValid(this.grid, row, col, num) and what it returns
IsValidCall(row, col, num) ==
    /\ isValidCall = Null
    /\ isValidCall' = <<[row |-> row, col |-> col, num |-> num,
                         result |-> isValid(this_grid, row, col, num)]>>
    /\ UNCHANGED <<this_grid, difficulty, box_i, frames, gen_solution, count, pc, seed>>

NextIsValid ==
    \E row, col \in 0 .. (N - 1), num \in Digits : IsValidCall(row, col, num) /\ UNCHANGED_GAME

SpecIsValid == InitIsValid /\ [][NextIsValid]_vars

(* ---------------- observations used by the properties ---------------- *)
Fixed(cell) == initial[cell] # 0
Solved == isFull(grid) /\ isCorrect(grid, solution)
Won == isGameOver /\ modalTitle = "Victory!"
Lost == isGameOver /\ modalTitle = "Game Over"
InGame == screen = "game-screen"
LastEntry == history[Len(history)]
\* the index of the selected cell
Sel == At(selectedCell)
\* a step of inputNumber that writes a new value into the selected cell
Placement ==
    /\ InGame /\ ~isGameOver /\ ~isNoteMode
    /\ selectedCell # NoCell /\ ~Fixed(Sel)
    /\ grid'[Sel] # grid[Sel]
    /\ Len(history') >= Len(history)
    /\ Len(history') > 0
    /\ history'[Len(history')] = [type |-> "input", r |-> selectedCell.r, c |-> selectedCell.c,
                                  val |-> grid'[Sel], prevVal |-> grid[Sel]]
WrongPlacement == Placement /\ grid'[Sel] \notin {0, solution[Sel]}
\* a step of useHint that passes its four checks
HintApplied ==
    /\ InGame /\ ~isGameOver /\ score >= HINT_COST
    /\ selectedCell # NoCell /\ grid[Sel] = 0
    /\ grid'[Sel] # 0
    /\ history' = history

\* a step of inputNumber that changes the grid value of the selected cell
GridMove ==
    /\ InGame /\ ~isGameOver /\ ~isNoteMode
    /\ selectedCell # NoCell /\ ~Fixed(Sel)
    /\ grid'[Sel] # grid[Sel]
    /\ initial' = initial
    /\ Len(history') >= Len(history)
\* a step of undo that pops an entry
UndoStep == InGame /\ ~isGameOver /\ Len(history') < Len(history)
\* the points the scripted placements of a session earn
ScriptScore == CORRECT_BONUS * (Removed(level) - Cardinality(EndCells))

\* a step of inputNumber that writes the solution digit into the selected cell
CorrectPlacement ==
    /\ GridMove
    /\ grid'[Sel] = solution[Sel]
Peer(x, cell) == x # cell /\ (Row(x) = Row(cell) \/ Col(x) = Col(cell) \/ SameBox(x, cell))
Without(list, num) == SelectSeq(list, LAMBDA n : n # num)
Has(list, num) == \E i \in 1 .. Len(list) : list[i] = num

\* generate has taken its copy `solution`, generate has returned
SolutionTaken == pc \in {"remove", "returned"}
Returned == pc = "returned"
RowOf(g, r) == {g[r * N + c] : c \in 0 .. (N - 1)}
ColumnOf(g, c) == {g[r * N + c] : r \in 0 .. (N - 1)}
BoxOf(g, b) ==
    {g[((b \div BOX) * BOX + i) * N + ((b % BOX) * BOX + j)] : i, j \in 0 .. (BOX - 1)}
Blanks(g) == {cell \in Cells : g[cell] = 0}

\* a call of useHint that meets one of its four rejections
HintRejected ==
    /\ UseHint
    /\ isGameOver \/ score < HINT_COST \/ selectedCell = NoCell \/ grid[Sel] # 0
\* the digits the deal left blank and the player holds now
Placed == {cell \in Cells : initial[cell] = 0 /\ grid[cell] # 0}

\* a step of the callback of a live timer
TickStep == \E id \in intervals : Tick(id)
\* what saveGame stores for the state a step leaves
SnapshotAfter ==
    [grid |-> grid', solution |-> solution', initial |-> initial', notes |-> notes',
     selectedCell |-> selectedCell', score |-> score', timer |-> timer',
     timerInterval |-> timerInterval', mistakes |-> mistakes', level |-> level',
     isNoteMode |-> isNoteMode', history |-> history', isPaused |-> isPaused',
     isGameOver |-> isGameOver']

\* the cell isValid was asked about, and the cells of its row, column and box
Asked == isValidCall[1].row * N + isValidCall[1].col
Units(cell) == {x \in Cells : Row(x) = Row(cell) \/ Col(x) = Col(cell) \/ SameBox(x, cell)}
Holders(cells) == {x \in cells : this_grid[x] = isValidCall[1].num}

(* ---------------- properties ---------------- *)

\* C1: once a cell is fixed (initial # 0, dealt or promoted by a hint), no
\* handler of the running session changes its grid value.
C1_FixedCellNeverChanges ==
    [][InGame => \A cell \in Cells : Fixed(cell) => grid'[cell] = grid[cell]]_vars

\* C2: the session is marked won exactly when the grid has no empty cell and
\* equals the solution cell by cell.
C2_WonIffSolved == Solved <=> Won

\* C3 (as stated): every normal-mode placement of a wrong non-zero digit sets
\* score to max(0, score - 50), the losing third mistake included.
C3_EveryMistakeCostsPenalty ==
    [][WrongPlacement => score' = Max(0, score - MISTAKE_PENALTY)]_vars

\* C3 (amended): a wrong placement that leaves the mistake count below 3 sets
\* score to max(0, score - 50); the one that brings the count to 3 ends the
\* session in loss and leaves score unchanged.
C3_MistakePenaltyUnlessLosing ==
    [][WrongPlacement =>
          /\ mistakes' = mistakes + 1
          /\ IF mistakes + 1 >= MAX_MISTAKES
             THEN score' = score /\ isGameOver' /\ modalTitle' = "Game Over"
             ELSE score' = Max(0, score - MISTAKE_PENALTY) /\ ~isGameOver']_vars

\* C3 witness: the third wrong digit has just lost a session that still had points
C3_LostWithPoints ==
    /\ Lost /\ mistakes = MAX_MISTAKES /\ score > 0
    /\ LastEntry.val \notin {0, solution[At(LastEntry)]}

\* C4: within a session the mistake count never decreases and stays in 0..3,
\* the session is lost exactly when the count is 3, and no move is applied
\* once it is 3.
C4_MistakesAndLoss ==
    /\ [](mistakes \in 0 .. MAX_MISTAKES /\ (Lost <=> mistakes = MAX_MISTAKES))
    /\ [][InGame => mistakes' >= mistakes]_vars
    /\ [][InGame /\ mistakes = MAX_MISTAKES =>
             UNCHANGED <<grid, initial, notes, history, score, mistakes>>]_vars

\* C4 witness: a session lost on its third mistake after a second one was penalised
C4_LostOnThirdMistake ==
    /\ Lost /\ mistakes = MAX_MISTAKES
    /\ Len(history) >= MAX_MISTAKES

\* C5: the undo history never holds more than 20 entries.
C5_HistoryAtMostLimit == Len(history) <= HISTORY_LIMIT

\* C6: a successful useHint leaves score exactly 50 lower, writes the solution
\* digit into the cell and makes the cell fixed.
C6_HintCostsFifty ==
    [][HintApplied =>
          /\ score' = score - HINT_COST
          /\ grid'[Sel] = solution[Sel]
          /\ initial'[Sel] = solution[Sel]]_vars

\* C7: once the session is over, no handler changes a session-state field
\* until a new session is started.
C7_ReadOnlyAfterGameOver ==
    [][isGameOver /\ isGameOver' =>
          UNCHANGED <<grid, initial, notes, history, score, mistakes, timer,
                      isNoteMode, isPaused, selectedCell>>]_vars

\* C8: only empty cells carry notes.
C8_NotesOnlyOnEmptyCells ==
    \A cell \in Cells : notes[cell] # <<>> => grid[cell] = 0

\* C9: every note list holds digits 1..9 only, none of them twice.
C9_NotesAreDigitSets ==
    \A cell \in Cells :
        \A i \in 1 .. Len(notes[cell]) :
            /\ notes[cell][i] \in 1 .. 9
            /\ \A j \in 1 .. Len(notes[cell]) : notes[cell][i] = notes[cell][j] => i = j

\* C10: the score is a non-negative integer in every reachable state.
C10_ScoreNonNegative == score \in Nat

\* C10 witness: a mistake made at score zero has been penalised
C10_PenaltyAtZero ==
    /\ score = 0 /\ mistakes \in 1 .. (MAX_MISTAKES - 1) /\ ~isGameOver
    /\ Len(history) > 0
    /\ LastEntry.val \notin {0, solution[At(LastEntry)]}

\* C11: after a normal-mode move that changes grid[r][c] and does not end the
\* session, undo is enabled and the grid it leaves is the grid before the move:
\* (r,c) holds its prior value and no other cell differs; every undo step
\* leaves that grid.
C11_UndoRestoresMove ==
    /\ [][GridMove /\ ~isGameOver' =>
             /\ Len(history') > 0
             /\ undo(grid', history') = grid]_vars
    /\ [][UndoStep => grid' = undo(grid, history)]_vars

\* C11 witness: a correct placement on one of the last cells has been undone:
\* its bonus is kept, the cell is empty and selected again
C11_MoveUndone ==
    /\ InGame /\ ~PageLoaded /\ ~isGameOver
    /\ Len(history) = HISTORY_LIMIT
    /\ score > ScriptScore
    /\ selectedCell # NoCell /\ Sel \in EndCells /\ grid[Sel] = 0

\* C12: with a fixed cell selected (initial[r][c] # 0), a call of inputNumber
\* with any digit, or of erase, leaves grid, notes, history, score and mistakes
\* as they were.
C12_FixedCellFrame ==
    [][/\ InGame /\ selectedCell # NoCell /\ Fixed(Sel)
       /\ (Erase \/ \E num \in 0 .. N : inputNumber(num))
       => UNCHANGED <<grid, notes, history, score, mistakes>>]_vars

\* C12 witness: a hint made the selected cell fixed, and a later handler call
\* found everything the hint left: the cell's digit, the history, the hint's price
C12_InputOnFixedCell ==
    /\ InGame /\ ~isGameOver /\ inputs > 1
    /\ selectedCell # NoCell /\ Sel \in EndCells /\ Fixed(Sel)
    /\ grid[Sel] = solution[Sel]
    /\ score = ScriptScore - HINT_COST + CORRECT_BONUS
    /\ notes = EmptyNotes /\ ~isNoteMode /\ ~isPaused

\* C13: right after a correct normal-mode placement of digit D at (r,c), won
\* game or not, (r,c) has no notes, every other cell of its row, column and box
\* has its former notes without D, and every remaining cell has its former notes.
C13_NoteCascade ==
    [][CorrectPlacement =>
          \A x \in Cells :
              notes'[x] = IF x = Sel THEN <<>>
                          ELSE IF Peer(x, Sel) THEN Without(notes[x], solution[Sel])
                          ELSE notes[x]]_vars

\* C13 witness: the game is won by a placement made while the other end cell
\* carried notes; what is left there is the note of another digit
C13_CascadeOnWin ==
    /\ Won /\ selectedCell # NoCell /\ Sel \in EndCells
    /\ LastEntry.val = solution[Sel] /\ At(LastEntry) = Sel
    /\ \E x \in EndCells \ {Sel} : notes[x] = <<solution[x]>>
    /\ notes[Sel] = <<>>

\* C14: the solution generate takes and returns has a digit in every cell, and
\* each of its rows, columns and 3x3 boxes holds every digit of 1..9, whatever
\* the box fills and the shuffled orders were.
C14_SolutionIsValid ==
    SolutionTaken =>
        /\ \A cell \in Cells : gen_solution[cell] \in Digits
        /\ \A k \in 0 .. (N - 1) :
              /\ RowOf(gen_solution, k) = Digits
              /\ ColumnOf(gen_solution, k) = Digits
              /\ BoxOf(gen_solution, k) = Digits

\* C14 witness: generate has returned a solution built from a shuffled first
\* box under the last seed
C14_Generated ==
    /\ Returned /\ seed = MaxSeeds - 1
    /\ gen_solution[0] # 1
    /\ BoxOf(gen_solution, 0) = Digits

\* C15: when generate returns for a tier, its initial grid is 0 on exactly the
\* tier's number of cells (30, 40, 50, 55) and equals the solution on all
\* other cells, which hold a digit; on the way there, the cells blanked and
\* the removals left add up to the tier's number.
C15_InitialIsSolutionBlanked ==
    /\ SolutionTaken =>
          /\ Cardinality(Blanks(this_grid)) + count = DIFFICULTY[difficulty]
          /\ \A cell \in Cells \ Blanks(this_grid) : this_grid[cell] = gen_solution[cell]
          /\ Blanks(gen_solution) = {}
    /\ Returned => count = 0

\* C15 witness: generate has returned an expert grid, 55 of its 81 cells blank
C15_ExpertReturned ==
    /\ Returned /\ difficulty = "expert"
    /\ Cardinality(Blanks(this_grid)) = 55
    /\ Cardinality(Cells \ Blanks(this_grid)) = N * N - 55

\* C16: a call of useHint made when the session is over, the score is below
\* 50, no cell is selected or the selected cell is filled leaves grid, initial,
\* score, notes, history, mistakes and the game-over flag as they were.
C16_RejectedHintChangesNothing ==
    [][HintRejected =>
          UNCHANGED <<grid, initial, score, notes, history, mistakes, isGameOver>>]_vars

\* C16 witness: useHint was called in a session that could pay for a hint, and
\* no hint has been given: the deal's cells are the fixed ones, every point of
\* the placements is there, the selected cell is filled
C16_HintTurnedAway ==
    /\ InGame /\ ~isGameOver /\ inputs > 0
    /\ initial = Generate(level).initial
    /\ score >= HINT_COST /\ score = CORRECT_BONUS * Cardinality(Placed)
    /\ selectedCell # NoCell /\ grid[Sel] # 0

\* C17: a correct placement that wins the game raises the score by 10 and the
\* score stored in the high-score list is that final score.
C17_HighScoreIsFinalScore ==
    [][CorrectPlacement /\ isGameOver' =>
          /\ score' = score + CORRECT_BONUS
          /\ \E i \in 1 .. Len(sudoku_highscores') : sudoku_highscores'[i].score = score']_vars

\* C18: a tick of a session that is neither paused nor over adds 1 to the
\* elapsed time, and stores a snapshot of the state exactly when the new time
\* is a multiple of 10; a tick of a paused or ended session changes neither the
\* time nor the stored snapshot; a digit pressed while paused is written.
C18_TickAndPause ==
    /\ [][TickStep =>
             IF ~isPaused /\ ~isGameOver
             THEN /\ timer' = timer + 1
                  /\ IF timer' % SAVE_PERIOD = 0
                     THEN sudoku_save' = <<SnapshotAfter>>
                     ELSE sudoku_save' = sudoku_save
             ELSE timer' = timer /\ sudoku_save' = sudoku_save]_vars
    /\ [][\A num \in 0 .. N :
             /\ InGame /\ isPaused /\ ~isGameOver /\ ~isNoteMode
             /\ selectedCell # NoCell /\ ~Fixed(Sel)
             /\ inputNumber(num)
             => grid'[Sel] = num]_vars

\* C18 witness: the clock was ticked to 10, the game paused, and a digit
\* pressed after that: the snapshot of that move is one of a paused session
C18_MovedWhilePaused ==
    /\ isPaused /\ ~isGameOver /\ timer = SAVE_PERIOD
    /\ sudoku_save # Null
    /\ sudoku_save[1].isPaused /\ sudoku_save[1].timer = SAVE_PERIOD
    /\ sudoku_save[1].grid = grid

\* C19: while the session is over no snapshot is stored, whatever is done to
\* the ended session after the win or the loss, and none is stored right after
\* startGame.
C19_NoSnapshotWhenOver ==
    /\ [](isGameOver => sudoku_save = Null)
    /\ [][(\E lvl \in Levels : StartGame(lvl)) => sudoku_save' = Null]_vars

\* C19 witness: the move that lost the session called saveGame after gameOver
\* had removed the snapshot of the move before it
C19_LostWithoutSnapshot ==
    /\ Lost /\ sudoku_save = Null
    /\ Len(history) > HISTORY_LIMIT
    /\ LastEntry.val \notin {0, solution[At(LastEntry)]}
    /\ grid[At(LastEntry)] = LastEntry.val

\* C20 (as stated): isValid returns true exactly when the digit is in no cell
\* of the row, the column and the box other than (row,col) itself.
C20_ValidIffAbsentElsewhere ==
    isValidCall # Null =>
        (isValidCall[1].result <=> Holders(Units(Asked) \ {Asked}) = {})

\* C20 (amended): isValid returns true exactly when the digit is in no cell of
\* the row, the column and the box, (row,col) itself included; the call leaves
\* the grid as it was.
C20_ValidIffAbsent ==
    /\ [](isValidCall # Null => (isValidCall[1].result <=> Holders(Units(Asked)) = {}))
    /\ [][isValidCall' # isValidCall => this_grid' = this_grid]_vars

\* C20 witness: isValid has returned false for a digit that only the cell
\* asked about holds
C20_OwnDigitRejected ==
    /\ isValidCall # Null
    /\ ~isValidCall[1].result
    /\ Holders(Units(Asked)) = {Asked}

\* a session was started or resumed by this step
SessionOpened == (\E lvl \in Levels : StartGame(lvl)) \/ ResumeGame

====
